---- MODULE Spec2Model ----
(***************************************************************************)
(* Model of the cash-flow projector of financas-v3 (src/utils.py,          *)
(* build_cashflow) as called from src/app.py.                              *)
(*                                                                         *)
(* Calendar dates are day ordinals (date.toordinal()), amounts are         *)
(* integers (the smallest currency unit), strings that the code trims and  *)
(* lowercases are sequences of one-character strings.  A data frame is a   *)
(* record [isNone, rows]; rows is the sequence of its records in row       *)
(* order.  Frames carry the columns fetch_transactions and                 *)
(* fetch_cashflow_adjustments always produce (src/db.py:238, 325).         *)
(***************************************************************************)
EXTENDS Integers, Sequences, FiniteSets, TLC

(* ---------------------------- bounds ----------------------------------- *)
MaxDay  == 2         \* start, end and record dates range over 0..MaxDay
MaxRows == 3         \* df_tx and df_adj hold at most MaxRows rows together
MantBits == 3        \* significant bits of a floating-point number (53 in a
                     \* double), where rounding is modelled

Days == 0..MaxDay

(* ---------------------------- raw values ------------------------------- *)
\* the text of a cell of the "date" column: an ISO date ("YYYY-MM-DD", as
\* str(date) writes it) or text that is no date
IsoDate(d) == [kind |-> "iso", day |-> d]
BadDate    == [kind |-> "bad", day |-> 0]

\* the content of a cell of the "amount" column: a number or text that is
\* no number
Num(v)    == [kind |-> "num", v |-> v]
BadAmount == [kind |-> "bad", v |-> 0]

\* the text of a cell of the "type" column
s_entrada     == <<"e", "n", "t", "r", "a", "d", "a">>
s_saida       == <<"s", "a", "i", "d", "a">>
s_Saida_pad   == <<" ", "S", "a", "i", "d", "a", " ">>
s_ENTRADA_pad == <<" ", "E", "N", "T", "R", "A", "D", "A">>
s_outro       == <<"o", "u", "t", "r", "o">>

(* ---------------------------- pandas helpers --------------------------- *)
NaT == [nat |-> TRUE, day |-> 0, hour |-> 0]
NaN == [nan |-> TRUE, v |-> 0]

\* variant: text that is no date is taken as the epoch day
to_datetime_epoch(x) == [nat |-> FALSE, day |-> x.day, hour |-> 0]

\* pd.to_datetime(x, errors="coerce"): the timestamp of midnight of the day,
\* or NaT for text that is no date
to_datetime(x) ==
    IF x.kind = "iso" THEN [nat |-> FALSE, day |-> x.day, hour |-> 0]
    ELSE NaT

\* Series.dt.date: the calendar date of a timestamp, NaT stays NaT
NaTDate == [nat |-> TRUE, day |-> 0]

dt_date(t) == IF t.nat THEN NaTDate ELSE [nat |-> FALSE, day |-> t.day]

\* pd.to_numeric(x, errors="coerce"): the number, or NaN
to_numeric(x) == IF x.kind = "num" THEN [nan |-> FALSE, v |-> x.v] ELSE NaN

\* Series.fillna(value)
fillna(x, value) == IF x.nan THEN value ELSE x.v

Whitespace == {" ", "\t", "\n"}

RECURSIVE lstrip(_)
lstrip(s) == IF s # <<>> /\ Head(s) \in Whitespace THEN lstrip(Tail(s)) ELSE s

RECURSIVE rstrip(_)
rstrip(s) ==
    IF s # <<>> /\ s[Len(s)] \in Whitespace
    THEN rstrip(SubSeq(s, 1, Len(s) - 1)) ELSE s

\* variant: only leading whitespace is removed
str_strip_left_only(s) == lstrip(s)

\* Series.str.strip()
str_strip(s) == rstrip(lstrip(s))

UpperToLower ==
    [c \in {"A", "D", "E", "I", "N", "O", "R", "S", "T", "U"} |->
        CASE c = "A" -> "a" [] c = "D" -> "d" [] c = "E" -> "e"
          [] c = "I" -> "i" [] c = "N" -> "n" [] c = "O" -> "o"
          [] c = "R" -> "r" [] c = "S" -> "s" [] c = "T" -> "t"
          [] c = "U" -> "u"]

\* Series.str.lower()
str_lower(s) ==
    [i \in DOMAIN s |-> IF s[i] \in DOMAIN UpperToLower
                        THEN UpperToLower[s[i]] ELSE s[i]]

\* variant: the end day is left out
date_range_excl_end(p_start, p_end) ==
    [i \in 1..(IF p_end > p_start THEN p_end - p_start ELSE 0) |-> p_start + i - 1]

\* variant: the days come latest first
date_range_descending(p_start, p_end) ==
    [i \in 1..(IF p_end >= p_start THEN p_end - p_start + 1 ELSE 0) |->
        p_end - i + 1]

\* variant: a reversed range is put in order instead of being empty
date_range_swapped(p_start, p_end) ==
    LET lo == IF p_start <= p_end THEN p_start ELSE p_end
        hi == IF p_start <= p_end THEN p_end ELSE p_start
    IN  [i \in 1..(hi - lo + 1) |-> lo + i - 1]

\* pd.date_range(start, end, freq="D").date: every day from start to end,
\* empty when start is later than end
date_range(p_start, p_end) ==
    [i \in 1..(IF p_end >= p_start THEN p_end - p_start + 1 ELSE 0) |->
        p_start + i - 1]

\* variant: the rows of a group are counted instead of added (.count())
sum_amount_count(rows) == Len(rows)

\* Series.sum() over the "amount" column, in row order
RECURSIVE sum_amount(_)
sum_amount(rows) ==
    IF rows = <<>> THEN 0
    ELSE sum_amount(SubSeq(rows, 1, Len(rows) - 1)) + rows[Len(rows)].amount

\* variant: each date keeps the amount of its last row instead of the sum
groupby_date_sum_last(rows) ==
    LET keys == {rows[i].date.day : i \in {j \in DOMAIN rows : ~rows[j].date.nat}}
        LastOn(d) == CHOOSE i \in DOMAIN rows :
                        /\ ~rows[i].date.nat /\ rows[i].date.day = d
                        /\ \A j \in DOMAIN rows :
                              (~rows[j].date.nat /\ rows[j].date.day = d) => j <= i
    IN  [d \in keys |-> rows[LastOn(d)].amount]

\* rows.groupby("date")["amount"].sum(): one entry per distinct date, rows
\* whose date is NaT belong to no group
groupby_date_sum(rows) ==
    LET keys == {rows[i].date.day : i \in {j \in DOMAIN rows : ~rows[j].date.nat}}
        OnDay(d) == LET Test(r) == ~r.date.nat /\ r.date.day = d
                    IN  SelectSeq(rows, Test)
    IN  [d \in keys |-> sum_amount(OnDay(d))]

\* Series.map(g): the entry of g for the value, NaN where g has none
map_series(d, g) == IF d \in DOMAIN g THEN [nan |-> FALSE, v |-> g[d]] ELSE NaN

\* variant: nothing is carried from one row to the next
cumsum_no_carry(s) == s

\* Series.cumsum()
RECURSIVE cumsum(_)
cumsum(s) ==
    IF s = <<>> THEN <<>>
    ELSE LET prev == cumsum(SubSeq(s, 1, Len(s) - 1))
         IN  Append(prev, (IF prev = <<>> THEN 0 ELSE prev[Len(prev)]) + s[Len(s)])

(* ---------------------------- build_cashflow --------------------------- *)
EmptyFrame == [isNone |-> FALSE, rows |-> <<>>]
NoneFrame  == [isNone |-> TRUE, rows |-> <<>>]

\* df_tx.empty / df_adj.empty
frame_empty(f) == f.rows = <<>>

\* variant: the only_paid filter of lines 22-23 is left out
prepare_tx_unfiltered(p_tx, p_only_paid) ==
    LET tx0 == IF p_tx.isNone \/ frame_empty(p_tx) THEN <<>> ELSE p_tx.rows
    IN  [i \in DOMAIN tx0 |->
            [date   |-> dt_date(to_datetime(tx0[i].date)),
             type   |-> str_lower(str_strip(tx0[i].type)),
             amount |-> fillna(to_numeric(tx0[i].amount), 0),
             paid   |-> tx0[i].paid]]

\* lines 17-27: the transactions as aggregated
prepare_tx(p_tx, p_only_paid) ==
    LET tx0 == IF p_tx.isNone \/ frame_empty(p_tx) THEN <<>> ELSE p_tx.rows
        IsPaid(r) == r.paid = 1
        df1 == IF p_only_paid THEN SelectSeq(tx0, IsPaid) ELSE tx0
    IN  [i \in DOMAIN df1 |->
            [date   |-> dt_date(to_datetime(df1[i].date)),
             type   |-> str_lower(str_strip(df1[i].type)),
             amount |-> fillna(to_numeric(df1[i].amount), 0),
             paid   |-> df1[i].paid]]

\* lines 45-47: the adjustments as aggregated
prepare_adj(p_adj) ==
    [i \in DOMAIN p_adj.rows |->
        [date   |-> dt_date(to_datetime(p_adj.rows[i].date)),
         amount |-> fillna(to_numeric(p_adj.rows[i].amount), 0)]]

\* lines 42-49: the "ajuste" column
ajuste_column(p_days, p_adj) ==
    IF p_adj.isNone \/ frame_empty(p_adj)
    THEN [i \in DOMAIN p_days |-> 0]
    ELSE LET g_adj == groupby_date_sum(prepare_adj(p_adj))
         IN  [i \in DOMAIN p_days |-> fillna(map_series(p_days[i], g_adj), 0)]

\* variant: the adjustment is added back
saldo_dia_of_plus(p_entrada, p_saida, p_ajuste) == p_entrada - p_saida + p_ajuste

\* line 51
saldo_dia_of(p_entrada, p_saida, p_ajuste) == p_entrada - p_saida - p_ajuste

\* lines 32-40 and 51-53: the series over the day grid
assemble(p_days, p_df, p_adj) ==
    LET IsIn(r)  == r.type = s_entrada
        IsOut(r) == r.type = s_saida
        g_in  == IF p_df # <<>> THEN groupby_date_sum(SelectSeq(p_df, IsIn))
                 ELSE <<>>
        g_out == IF p_df # <<>> THEN groupby_date_sum(SelectSeq(p_df, IsOut))
                 ELSE <<>>
        entrada == [i \in DOMAIN p_days |-> fillna(map_series(p_days[i], g_in), 0)]
        saida   == [i \in DOMAIN p_days |-> fillna(map_series(p_days[i], g_out), 0)]
        ajuste  == ajuste_column(p_days, p_adj)
        saldo_dia == [i \in DOMAIN p_days |->
                         saldo_dia_of(entrada[i], saida[i], ajuste[i])]
        saldo_acumulado == cumsum(saldo_dia)
    IN  [i \in DOMAIN p_days |->
            [data            |-> p_days[i],
             entrada         |-> entrada[i],
             saida           |-> saida[i],
             ajuste          |-> ajuste[i],
             saldo_dia       |-> saldo_dia[i],
             saldo_acumulado |-> saldo_acumulado[i]]]

\* variant: line 20 binds df to the caller's frame instead of a copy, so the
\* column assignments of lines 25-27 land in the caller's frame (a date cell
\* then holds a date object or NaT instead of text)
caller_tx_after_in_place(p_tx, p_only_paid) ==
    IF p_tx.isNone \/ frame_empty(p_tx) \/ p_only_paid THEN p_tx
    ELSE [p_tx EXCEPT !.rows =
            [i \in DOMAIN p_tx.rows |->
                [p_tx.rows[i] EXCEPT
                    !.date = [kind |-> IF to_datetime(@).nat THEN "nat" ELSE "date",
                              day  |-> dt_date(to_datetime(@)).day],
                    !.type = str_lower(str_strip(@)),
                    !.amount = Num(fillna(to_numeric(@), 0))]]]

\* the caller's transaction frame once the call has returned: line 18 rebinds
\* the local name, line 20 copies, line 23 selects into a new frame, and
\* lines 25-27 assign to the columns of that copy only
caller_tx_after(p_tx, p_only_paid) == p_tx

\* the caller's adjustment frame once the call has returned: lines 46-47
\* assign to the columns of the copy made at line 45
caller_adj_after(p_adj) == p_adj

\* variant: no transactions, no series
build_cashflow_early_return(p_tx, p_start, p_end, p_only_paid, p_adj) ==
    IF p_tx.isNone \/ frame_empty(p_tx) THEN <<>>
    ELSE assemble(date_range(p_start, p_end), prepare_tx(p_tx, p_only_paid), p_adj)

build_cashflow(p_tx, p_start, p_end, p_only_paid, p_adj) ==
    assemble(date_range(p_start, p_end), prepare_tx(p_tx, p_only_paid), p_adj)

(* ---------------------------- floating-point amounts ------------------- *)
\* The "amount" columns are 64-bit floats.  Where rounding matters a float is
\* modelled as an integer with at most MantBits significant bits, every
\* operation rounding its exact result to the nearest such number, ties to
\* the even mantissa.
RECURSIVE Pow2(_)
Pow2(n) == IF n = 0 THEN 1 ELSE 2 * Pow2(n - 1)

Abs(x) == IF x < 0 THEN -x ELSE x

RECURSIVE ExponentOf(_)
ExponentOf(a) == IF a < Pow2(MantBits) THEN 0 ELSE 1 + ExponentOf(a \div 2)

fl_round(x) ==
    LET a == Abs(x)
        e == ExponentOf(a)
        q == a \div Pow2(e)
        r == a % Pow2(e)
        up == e > 0 /\ (2 * r > Pow2(e) \/ (2 * r = Pow2(e) /\ q % 2 = 1))
        m == (IF up THEN q + 1 ELSE q) * Pow2(e)
    IN  IF x < 0 THEN -m ELSE m

fl_add(a, b) == fl_round(a + b)
fl_sub(a, b) == fl_round(a - b)

\* variant: the sum of a group is the amount of its last row
fl_group_sum_last(rows) == IF rows = <<>> THEN 0 ELSE rows[Len(rows)].amount

\* the per-group sum of groupby(...).sum() on a float column: compensated
\* (Kahan) summation in row order; acc is <<sum, compensation>>
RECURSIVE fl_kahan(_)
fl_kahan(rows) ==
    IF rows = <<>> THEN <<0, 0>>
    ELSE LET acc == fl_kahan(SubSeq(rows, 1, Len(rows) - 1))
             y == fl_sub(rows[Len(rows)].amount, acc[2])
             t == fl_add(acc[1], y)
         IN  <<t, fl_sub(fl_sub(t, acc[1]), y)>>

fl_group_sum(rows) == fl_kahan(rows)[1]

\* rows.groupby("date")["amount"].sum() on floats
fl_groupby_date_sum(rows) ==
    LET keys == {rows[i].date.day : i \in {j \in DOMAIN rows : ~rows[j].date.nat}}
        OnDay(d) == LET Test(r) == ~r.date.nat /\ r.date.day = d
                    IN  SelectSeq(rows, Test)
    IN  [d \in keys |-> fl_group_sum(OnDay(d))]

\* Series.cumsum() on floats: one rounded addition per row
RECURSIVE fl_cumsum(_)
fl_cumsum(s) ==
    IF s = <<>> THEN <<>>
    ELSE LET prev == fl_cumsum(SubSeq(s, 1, Len(s) - 1))
         IN  Append(prev, IF prev = <<>> THEN s[Len(s)]
                          ELSE fl_add(prev[Len(prev)], s[Len(s)]))

\* build_cashflow with the float arithmetic of lines 33-34, 48, 51 and 52
fl_build_cashflow(p_tx, p_start, p_end, p_only_paid, p_adj) ==
    LET p_days == date_range(p_start, p_end)
        p_df == prepare_tx(p_tx, p_only_paid)
        IsIn(r)  == r.type = s_entrada
        IsOut(r) == r.type = s_saida
        g_in  == IF p_df # <<>> THEN fl_groupby_date_sum(SelectSeq(p_df, IsIn))
                 ELSE <<>>
        g_out == IF p_df # <<>> THEN fl_groupby_date_sum(SelectSeq(p_df, IsOut))
                 ELSE <<>>
        g_adj == IF p_adj.isNone \/ frame_empty(p_adj) THEN <<>>
                 ELSE fl_groupby_date_sum(prepare_adj(p_adj))
        entrada == [i \in DOMAIN p_days |-> fillna(map_series(p_days[i], g_in), 0)]
        saida   == [i \in DOMAIN p_days |-> fillna(map_series(p_days[i], g_out), 0)]
        ajuste  == [i \in DOMAIN p_days |-> fillna(map_series(p_days[i], g_adj), 0)]
        saldo_dia == [i \in DOMAIN p_days |->
                         fl_sub(fl_sub(entrada[i], saida[i]), ajuste[i])]
        saldo_acumulado == fl_cumsum(saldo_dia)
    IN  [i \in DOMAIN p_days |->
            [data            |-> p_days[i],
             entrada         |-> entrada[i],
             saida           |-> saida[i],
             ajuste          |-> ajuste[i],
             saldo_dia       |-> saldo_dia[i],
             saldo_acumulado |-> saldo_acumulado[i]]]

(* ---------------------------- state ------------------------------------ *)
\* the caller's arguments, the caller's position, and what the call gave:
\* raised is the error kind the call raised ("none" when it returned) and out
\* the returned series
VARIABLES df_tx, df_adj, start, end, only_paid, pc, raised, out

\* the argument of _min_n_for_target in centavos, its caller's position and
\* the number it returned
VARIABLES target, n_result, pc_min

\* one run of the page script: the period the sidebar holds, the page chosen,
\* the position of the run and whether the run has called build_cashflow
VARIABLES dt_ini, dt_fim, pagina, pc_app, called

\* the database and the read caches in front of it: the rows of the tables,
\* the last id each AUTOINCREMENT column gave out, the entries of the five
\* st.cache_data caches, the store operation that returned last (with its
\* arguments and value when it was a fetch), and how many writes were issued
VARIABLES transactions, cashflow_adjustments, debts, seq,
          savings_goal_v2, savings_deposits_v2, savings_overrides_v2,
          cache, last_op, n_writes

\* the "Quitar agora" handler of the debts page: its position, the frame
\* fetch_debts gave the page, the id typed in, and the row it settles
VARIABLES handler

\* calls that overlap in time: each fetch in flight, the write in flight, and
\* the ids of the rows whose write has committed and cleared the caches
VARIABLES fetchers, writer, completed

cf_vars  == <<df_tx, df_adj, start, end, only_paid, pc, raised, out>>
min_vars == <<target, n_result, pc_min>>

app_vars == <<dt_ini, dt_fim, pagina, pc_app, called>>

table_vars   == <<transactions, cashflow_adjustments, debts, seq>>
savings_vars == <<savings_goal_v2, savings_deposits_v2, savings_overrides_v2>>
store_vars   == <<table_vars, savings_vars, cache, last_op, n_writes>>

settle_vars  == <<handler>>
conc_vars    == <<fetchers, writer, completed>>

vars == <<cf_vars, min_vars, app_vars, store_vars, settle_vars, conc_vars>>

\* a part of the program that a run does not exercise stays as it starts
CashflowIdle ==
    /\ df_tx = [isNone |-> TRUE, rows |-> <<>>]
    /\ df_adj = [isNone |-> TRUE, rows |-> <<>>]
    /\ start = 0 /\ end = 0 /\ only_paid = FALSE
    /\ pc = "idle" /\ raised = "none" /\ out = <<>>

MinNIdle == target = 0 /\ n_result = 0 /\ pc_min = "idle"

AppIdle ==
    /\ dt_ini = 0 /\ dt_fim = 0 /\ pagina = "none"
    /\ pc_app = "idle" /\ called = FALSE

CachedFns == {"fetch_transactions", "fetch_cashflow_adjustments", "fetch_debts",
              "get_savings_goal_v2", "fetch_savings_deposits_v2_with_amount"}

\* no function has a cached entry
EmptyCache == [fn \in CachedFns |-> {}]

\* the savings_goal_v2 row (1, NULL, NULL, NULL) that init_db inserts
NullGoal == [isNull |-> TRUE, target_amount |-> 0, n_deposits |-> 0]

\* the arguments of an operation that is not a fetch
NoKey == [ds |-> [isNone |-> TRUE, day |-> 0], de |-> [isNone |-> TRUE, day |-> 0]]

\* the database as init_db leaves a new one, and nothing cached
StoreFresh ==
    /\ transactions = {} /\ cashflow_adjustments = {} /\ debts = {}
    /\ seq = [transactions |-> 0, cashflow_adjustments |-> 0, debts |-> 0]
    /\ savings_goal_v2 = NullGoal
    /\ savings_deposits_v2 = <<>>
    /\ savings_overrides_v2 = <<>>
    /\ cache = EmptyCache
    /\ last_op = [name |-> "init_db", committed |-> TRUE, key |-> NoKey, value |-> {}]
    /\ n_writes = 0

StoreIdle == StoreFresh

IdleHandler ==
    [pc |-> "idle", df |-> {}, debt_id |-> 0, amount |-> 0,
     dt_fim |-> IsoDate(0), step |-> 0]

SettleIdle == handler = IdleHandler

IdleWriter == [pc |-> "idle", row |-> 0]

ConcIdle == fetchers = <<>> /\ writer = IdleWriter /\ completed = {}

\* for each specification, the variables it leaves alone and their values
not_cf_vars     == <<min_vars, app_vars, store_vars, settle_vars, conc_vars>>
NotCfIdle       == MinNIdle /\ AppIdle /\ StoreIdle /\ SettleIdle /\ ConcIdle
not_min_vars    == <<cf_vars, app_vars, store_vars, settle_vars, conc_vars>>
NotMinIdle      == CashflowIdle /\ AppIdle /\ StoreIdle /\ SettleIdle /\ ConcIdle
not_app_vars    == <<min_vars, store_vars, settle_vars, conc_vars>>
NotAppIdle      == MinNIdle /\ StoreIdle /\ SettleIdle /\ ConcIdle
not_store_vars  == <<cf_vars, min_vars, app_vars, settle_vars, conc_vars>>
NotStoreIdle    == CashflowIdle /\ MinNIdle /\ AppIdle /\ SettleIdle /\ ConcIdle
not_settle_vars == <<cf_vars, min_vars, app_vars, conc_vars>>
NotSettleIdle   == CashflowIdle /\ MinNIdle /\ AppIdle /\ ConcIdle
not_conc_vars   == <<cf_vars, min_vars, app_vars, settle_vars>>
NotConcIdle     == CashflowIdle /\ MinNIdle /\ AppIdle /\ SettleIdle

(* ---------------------------- inputs ----------------------------------- *)
Tx(d, t, a, p) == [date |-> d, type |-> t, amount |-> a, paid |-> p]
Adj(d, a)      == [date |-> d, amount |-> a]

\* transaction rows a caller may pass: well-formed ones of both kinds, paid
\* and unpaid, and rows with a padded or capitalised kind, a date or an
\* amount that does not parse, and a kind that is neither
TxRows ==
    { Tx(IsoDate(0), s_entrada, Num(1), 1),
      Tx(IsoDate(1), s_ENTRADA_pad, Num(2), 0),
      Tx(IsoDate(1), s_Saida_pad, Num(4), 1),
      Tx(IsoDate(1), s_saida, Num(1), 0),
      Tx(BadDate, s_entrada, Num(2), 1),
      Tx(IsoDate(1), s_saida, BadAmount, 1),
      Tx(IsoDate(1), s_outro, Num(2), 1) }

AdjRows ==
    { Adj(IsoDate(1), Num(1)),
      Adj(BadDate, Num(2)),
      Adj(IsoDate(0), BadAmount) }

SeqsUpTo(S, n) == UNION {[1..k -> S] : k \in 0..n}

TxFrames ==
    {NoneFrame} \cup {[isNone |-> FALSE, rows |-> r] : r \in SeqsUpTo(TxRows, MaxRows)}

AdjFrames ==
    {NoneFrame} \cup {[isNone |-> FALSE, rows |-> r] : r \in SeqsUpTo(AdjRows, MaxRows)}

Init ==
    /\ df_tx \in TxFrames
    /\ df_adj \in AdjFrames
    /\ Len(df_tx.rows) + Len(df_adj.rows) <= MaxRows
    /\ start \in Days
    /\ end \in Days
    /\ only_paid \in BOOLEAN
    /\ pc = "call"
    /\ raised = "none"
    /\ out = <<>>
    /\ NotCfIdle

\* the caller invokes build_cashflow and receives what it returns; no
\* statement of build_cashflow raises for these arguments
Call ==
    /\ pc = "call"
    /\ out' = build_cashflow(df_tx, start, end, only_paid, df_adj)
    /\ raised' = "none"
    /\ pc' = "done"
    /\ df_tx' = caller_tx_after(df_tx, only_paid)
    /\ df_adj' = caller_adj_after(df_adj)
    /\ UNCHANGED <<start, end, only_paid>>
    /\ UNCHANGED not_cf_vars

Next == Call

Spec == Init /\ [][Next]_vars

(* ---------------------------- the documented scenario ------------------ *)
\* day 0, 1, 2 stand for 2024-01-01, 2024-01-02, 2024-01-03
ScenarioIncome     == Tx(IsoDate(0), s_entrada, Num(100), 1)
ScenarioExpense    == Tx(IsoDate(2), s_saida, Num(30), 1)
ScenarioAdjustment == Adj(IsoDate(1), Num(20))

ScenarioInit ==
    /\ df_tx \in {NoneFrame} \cup
         {[isNone |-> FALSE, rows |-> r] :
             r \in SeqsUpTo({ScenarioIncome, ScenarioExpense}, 2)}
    /\ df_adj \in {NoneFrame} \cup
         {[isNone |-> FALSE, rows |-> r] : r \in SeqsUpTo({ScenarioAdjustment}, 1)}
    /\ start \in Days
    /\ end \in Days
    /\ only_paid \in BOOLEAN
    /\ pc = "call"
    /\ raised = "none"
    /\ out = <<>>
    /\ NotCfIdle

SpecScenario == ScenarioInit /\ [][Next]_vars

(* ---------------------------- the call on float amounts ---------------- *)
\* rows of one day whose amounts are floats of different magnitudes
FloatTxRows ==
    { Tx(IsoDate(1), s_entrada, Num(2), 1),
      Tx(IsoDate(1), s_entrada, Num(3), 1),
      Tx(IsoDate(1), s_entrada, Num(Pow2(MantBits)), 1),
      Tx(IsoDate(1), s_saida, Num(1), 1) }

FloatAdjRows ==
    { Adj(IsoDate(1), Num(1)),
      Adj(IsoDate(0), Num(3)) }

FloatInit ==
    /\ df_tx \in {NoneFrame} \cup
         {[isNone |-> FALSE, rows |-> r] : r \in SeqsUpTo(FloatTxRows, MaxRows)}
    /\ df_adj \in {NoneFrame} \cup
         {[isNone |-> FALSE, rows |-> r] : r \in SeqsUpTo(FloatAdjRows, MaxRows)}
    /\ Len(df_tx.rows) + Len(df_adj.rows) <= MaxRows
    /\ start \in Days
    /\ end \in Days
    /\ only_paid \in BOOLEAN
    /\ pc = "call"
    /\ raised = "none"
    /\ out = <<>>
    /\ NotCfIdle

CallFloat ==
    /\ pc = "call"
    /\ out' = fl_build_cashflow(df_tx, start, end, only_paid, df_adj)
    /\ raised' = "none"
    /\ pc' = "done"
    /\ df_tx' = caller_tx_after(df_tx, only_paid)
    /\ df_adj' = caller_adj_after(df_adj)
    /\ UNCHANGED <<start, end, only_paid>>
    /\ UNCHANGED not_cf_vars

NextFloat == CallFloat

SpecFloat == FloatInit /\ [][NextFloat]_vars

(* ---------------------------- what the claims speak of ------------------ *)
\* the texts of the "type" column that read 'entrada' / 'saida' once trimmed
\* and lowercased
IncomeTexts  == {s_entrada, s_ENTRADA_pad}
ExpenseTexts == {s_saida, s_Saida_pad}

\* the amount a raw cell stands for; text that is no number stands for none
AmountValue(a) == IF a.kind = "num" THEN a.v ELSE 0

RECURSIVE SumOver(_, _)
SumOver(rows, I) ==
    IF I = {} THEN 0
    ELSE LET i == CHOOSE x \in I : TRUE
         IN  AmountValue(rows[i].amount) + SumOver(rows, I \ {i})

\* the transactions of the caller's frame that are paid / unpaid / all
PaidRows   == {i \in DOMAIN df_tx.rows : df_tx.rows[i].paid = 1}
UnpaidRows == {i \in DOMAIN df_tx.rows : df_tx.rows[i].paid # 1}
AllRows    == DOMAIN df_tx.rows
Retained   == IF only_paid THEN PaidRows ELSE AllRows

\* the sum of the amounts of the transactions among I dated d of a kind
TxTotal(d, texts, I) ==
    SumOver(df_tx.rows,
            {i \in I : df_tx.rows[i].date = IsoDate(d) /\ df_tx.rows[i].type \in texts})

\* the sum of the amounts of the adjustments dated d
AdjTotal(d) ==
    SumOver(df_adj.rows, {i \in DOMAIN df_adj.rows : df_adj.rows[i].date = IsoDate(d)})

\* what the call would have returned with the other value of the flag
OtherFlag == build_cashflow(df_tx, start, end, ~only_paid, df_adj)

InRange(d) == start <= d /\ d <= end

Malformed(r) == r.date = BadDate \/ r.amount = BadAmount

WellFormedOnly(f) ==
    LET Ok(r) == ~Malformed(r) IN [f EXCEPT !.rows = SelectSeq(f.rows, Ok)]

PaidOnly(f) ==
    LET IsPaid(r) == r.paid = 1 IN [f EXCEPT !.rows = SelectSeq(f.rows, IsPaid)]

(* ---------------------------- claims ----------------------------------- *)
\* C1: for start <= end the returned series has exactly (end - start) + 1
\* rows, whatever the transactions and adjustments; start = end gives one row.
C1_RowCount == (pc = "done" /\ start <= end) => Len(out) = end - start + 1

C1_Witness ==
    /\ pc = "done" /\ start = end /\ Len(out) = 1
    /\ Len(df_tx.rows) = 2 /\ Len(df_adj.rows) = 1

\* C2: for a valid range row 1 is dated start and every later row is dated
\* one day after the row before it, however many records fall on a day.
C2_Ordering ==
    (pc = "done" /\ start <= end) =>
        /\ Len(out) >= 1 /\ out[1].data = start
        /\ \A i \in 2..Len(out) : out[i].data = out[i - 1].data + 1

C2_Witness ==
    /\ pc = "done" /\ start = 0 /\ end = 2 /\ Len(out) = 3
    /\ Len(df_tx.rows) = 2
    /\ df_tx.rows[1].date = IsoDate(1) /\ df_tx.rows[2].date = IsoDate(1)
    /\ \A i \in DOMAIN df_adj.rows : df_adj.rows[i].date # IsoDate(2)

\* C3: the running balance of row 1 is its day balance, and the running
\* balance of every later row is that of the row before plus its day balance.
C3_RunningBalance ==
    pc = "done" =>
        /\ out # <<>> => out[1].saldo_acumulado = out[1].saldo_dia
        /\ \A i \in 2..Len(out) :
              out[i].saldo_acumulado = out[i - 1].saldo_acumulado + out[i].saldo_dia

C3_Witness ==
    /\ pc = "done" /\ Len(out) = 3
    /\ out[1].saldo_dia # 0 /\ out[2].saldo_dia # 0
    /\ out[3].saldo_acumulado = out[1].saldo_dia + out[2].saldo_dia

C5_SettlementFilter ==
    pc = "done" =>
        LET other == OtherFlag
            outT  == IF only_paid THEN out ELSE other
            outF  == IF only_paid THEN other ELSE out
            paidF == build_cashflow(PaidOnly(df_tx), start, end, FALSE, df_adj)
            paidT == build_cashflow(PaidOnly(df_tx), start, end, TRUE, df_adj)
        IN  \A i \in DOMAIN out :
              /\ outF[i].entrada - outT[i].entrada
                    = TxTotal(out[i].data, IncomeTexts, UnpaidRows)
              /\ outF[i].saida - outT[i].saida
                    = TxTotal(out[i].data, ExpenseTexts, UnpaidRows)
              /\ paidF[i].entrada = paidT[i].entrada
              /\ paidF[i].saida = paidT[i].saida
              /\ outT[i].entrada = paidF[i].entrada
              /\ outT[i].saida = paidF[i].saida

C5_Witness ==
    /\ pc = "done" /\ only_paid /\ start = 1 /\ end = 1
    /\ df_tx.rows = << Tx(IsoDate(1), s_saida, Num(1), 0),
                       Tx(IsoDate(1), s_Saida_pad, Num(4), 1) >>
    /\ out[1].saida = 4 /\ OtherFlag[1].saida = 5

\* C6: on every day of the range the income total is the sum of the amounts
\* of the retained transactions of that day whose kind reads 'entrada' once
\* trimmed and lowercased, the expense total the same for 'saida'; 0 when
\* there is none, and a transaction dated outside the range is in no row.
C6_DailyTotals ==
    pc = "done" =>
        \A d \in start..end :
            \E i \in DOMAIN out :
                /\ out[i].data = d
                /\ out[i].entrada = TxTotal(d, IncomeTexts, Retained)
                /\ out[i].saida = TxTotal(d, ExpenseTexts, Retained)

C6_Witness ==
    /\ pc = "done" /\ start = 1 /\ end = 2 /\ ~only_paid
    /\ df_tx.rows = << Tx(IsoDate(1), s_Saida_pad, Num(4), 1),
                       Tx(IsoDate(1), s_saida, Num(1), 0) >>
    /\ out[1].saida = 5 /\ out[1].entrada = 0 /\ out[2].saida = 0

\* C7: in every row the day balance is income minus expense minus adjustment.
C7_DayBalance ==
    pc = "done" =>
        \A i \in DOMAIN out :
            out[i].saldo_dia = out[i].entrada - out[i].saida - out[i].ajuste

C7_Witness ==
    /\ pc = "done"
    /\ \E i \in DOMAIN out :
          out[i].entrada > 0 /\ out[i].saida > 0 /\ out[i].ajuste > 0

\* C8: the adjustment total of a day is the sum of the amounts of the
\* adjustments dated that day, is the same under both values of only_paid,
\* and lowers the day balance by exactly that sum.
C8_Adjustments ==
    pc = "done" =>
        LET noAdj == build_cashflow(df_tx, start, end, only_paid, NoneFrame)
            other == OtherFlag
        IN  \A i \in DOMAIN out :
              /\ out[i].ajuste = AdjTotal(out[i].data)
              /\ other[i].ajuste = out[i].ajuste
              /\ out[i].saldo_dia = noAdj[i].saldo_dia - AdjTotal(out[i].data)

C8_Witness ==
    /\ pc = "done" /\ only_paid /\ UnpaidRows # {}
    /\ df_adj.rows = << Adj(IsoDate(1), Num(1)), Adj(IsoDate(1), Num(1)) >>
    /\ \E i \in DOMAIN out : out[i].data = 1 /\ out[i].ajuste = 2

\* C9: with records whose date or amount does not parse the call raises
\* nothing, returns the full grid, and returns what it returns without those
\* records: a record with no date is in no row, one with no amount adds zero.
C9_MalformedRecords ==
    pc = "done" =>
        /\ raised = "none"
        /\ start <= end => Len(out) = end - start + 1
        /\ out = build_cashflow(WellFormedOnly(df_tx), start, end, only_paid,
                                WellFormedOnly(df_adj))

C9_Witness ==
    /\ pc = "done" /\ start = 0 /\ end = 1 /\ ~only_paid
    /\ df_tx.rows = << Tx(BadDate, s_entrada, Num(2), 1),
                       Tx(IsoDate(0), s_entrada, Num(1), 1) >>
    /\ df_adj.rows = << Adj(IsoDate(0), BadAmount) >>
    /\ out[1].entrada = 1 /\ out[1].ajuste = 0 /\ out[2].entrada = 0

\* C10: with no transactions (None or empty) and no adjustments (None or
\* empty) a valid range gives the full grid with entrada, saida, ajuste,
\* saldo_dia and saldo_acumulado 0 in every row.
C10_ZeroInput ==
    (pc = "done" /\ start <= end /\ df_tx.rows = <<>> /\ df_adj.rows = <<>>) =>
        /\ Len(out) = end - start + 1
        /\ \A i \in DOMAIN out :
              /\ out[i].data = start + i - 1
              /\ out[i].entrada = 0 /\ out[i].saida = 0 /\ out[i].ajuste = 0
              /\ out[i].saldo_dia = 0 /\ out[i].saldo_acumulado = 0

C10_Witness ==
    /\ pc = "done" /\ start = end /\ Len(out) = 1
    /\ df_tx.isNone /\ df_adj = EmptyFrame
    /\ out[1].saldo_acumulado = 0

(* ---------------------------- C11 -------------------------------------- *)
\* every arrangement of the rows of a frame
Arrangements(rows) ==
    LET n == Len(rows)
        bij == {f \in [1..n -> 1..n] : \A i, j \in 1..n : f[i] = f[j] => i = j}
    IN  {[i \in 1..n |-> rows[f[i]]] : f \in bij}

Reordered(f) == {[f EXCEPT !.rows = r] : r \in Arrangements(f.rows)}

\* the amounts of both frames together stay below 2^MantBits, so that no
\* addition or subtraction of the call rounds
AmountsExact ==
    SumOver(df_tx.rows, DOMAIN df_tx.rows) + SumOver(df_adj.rows, DOMAIN df_adj.rows)
        < Pow2(MantBits)

\* C11 as claimed: for the same range and flag every permutation of the
\* transaction records and of the adjustment records gives the same series.
C11_OrderIndependent ==
    pc = "done" =>
        \A t \in Reordered(df_tx) : \A a \in Reordered(df_adj) :
            fl_build_cashflow(t, start, end, only_paid, a) = out

\* C11 as amended: every permutation of the records gives the same series
\* when the amounts are whole numbers small enough for all sums to be exact.
C11_OrderIndependentWhenExact ==
    (pc = "done" /\ AmountsExact) =>
        \A t \in Reordered(df_tx) : \A a \in Reordered(df_adj) :
            fl_build_cashflow(t, start, end, only_paid, a) = out

C11_Witness ==
    /\ pc = "done" /\ AmountsExact /\ start = 0 /\ end = 2
    /\ df_tx.rows = << Tx(IsoDate(1), s_entrada, Num(2), 1),
                       Tx(IsoDate(1), s_entrada, Num(3), 1),
                       Tx(IsoDate(1), s_saida, Num(1), 1) >>
    /\ out[2].entrada = 5 /\ out[2].saldo_dia = 4

MaxTarget == 700

\* floor of the square root of a natural number
RECURSIVE ISqrtFrom(_, _)
ISqrtFrom(m, r) == IF (r + 1) * (r + 1) > m THEN r ELSE ISqrtFrom(m, r + 1)

ISqrt(m) == ISqrtFrom(m, 0)

\* floor of a / b for b > 0, as int() truncates a quotient that is not negative
FloorDiv(a, b) == a \div b

Max(a, b) == IF a >= b THEN a ELSE b

\* n * (n + 1) / 2 < target, both sides times 100
below_target(n, c) == 50 * n * (n + 1) < c

\* variant: the first guess is returned without the step up
min_n_for_target_no_step(c) ==
    IF c <= 0 THEN 1
    ELSE Max(1, FloorDiv(ISqrt(100 + 8 * c) - 10, 20))

\* int((((1 + 8 * target) ** 0.5) - 1) / 2) is the floor of
\* (sqrt(100 + 8c) / 10 - 1) / 2 = (sqrt(100 + 8c) - 10) / 20, and the floor
\* of (x - 10) / 20 is that of (floor(x) - 10) / 20
min_n_for_target(c) ==
    IF c <= 0 THEN 1
    ELSE LET n0 == FloorDiv(ISqrt(100 + 8 * c) - 10, 20)
             n1 == IF below_target(n0, c) THEN n0 + 1 ELSE n0
         IN  Max(1, n1)

MinNInit ==
    /\ target \in (-MaxTarget)..MaxTarget
    /\ n_result = 0
    /\ pc_min = "call"
    /\ NotMinIdle

CallMinN ==
    /\ pc_min = "call"
    /\ n_result' = min_n_for_target(target)
    /\ pc_min' = "done"
    /\ UNCHANGED target
    /\ UNCHANGED not_min_vars

NextMinN == CallMinN

SpecMinN == MinNInit /\ [][NextMinN]_vars

(* ---------------------------- the store: shared pieces ----------------- *)
\* variant: the caches are left as they are
invalidate_cache_skipped == cache' = cache

\* _invalidate_cache(): every cached function is cleared
invalidate_cache == cache' = EmptyCache

\* a write returned: p_committed tells whether it ran its transaction
Returned(p_name, p_committed) ==
    last_op' = [name |-> p_name, committed |-> p_committed,
                key |-> NoKey, value |-> {}]

\* _paid_to_db / _paid_from_db on sqlite: 1 for a true value, 0 otherwise
paid_to_db(p) == IF p = 1 THEN 1 ELSE 0

(* ---------------------------- transactions, adjustments, debts --------- *)
\* INSERT INTO transactions: the id is the next AUTOINCREMENT value, the kind
\* is stripped and lower-cased, the paid flag goes through _paid_to_db
insert_transaction(date_, ttype, amount, paid) ==
    /\ seq' = [seq EXCEPT !.transactions = @ + 1]
    /\ transactions' = transactions \cup
          {[id |-> seq.transactions + 1, date |-> date_,
            type |-> str_lower(str_strip(ttype)), amount |-> amount,
            paid |-> paid_to_db(paid)]}

\* the transaction block commits, then _invalidate_cache() runs
add_transaction(date_, ttype, amount, paid) ==
    /\ insert_transaction(date_, ttype, amount, paid)
    /\ invalidate_cache
    /\ Returned("add_transaction", TRUE)
    /\ UNCHANGED <<cashflow_adjustments, debts, savings_vars>>

delete_transaction(tx_id) ==
    /\ transactions' = {r \in transactions : r.id # tx_id}
    /\ invalidate_cache
    /\ Returned("delete_transaction", TRUE)
    /\ UNCHANGED <<cashflow_adjustments, debts, seq, savings_vars>>

\* the row with this id after the UPDATEs of upd, applied in row order
RECURSIVE updated_row(_, _)
updated_row(r, upd) ==
    IF upd = <<>> THEN r
    ELSE LET u == Head(upd)
             r1 == IF u.id = r.id
                   THEN [id |-> r.id, date |-> u.date,
                         type |-> str_lower(str_strip(u.type)),
                         amount |-> u.amount, paid |-> paid_to_db(u.paid)]
                   ELSE r
         IN  updated_row(r1, Tail(upd))

\* with no frame or an empty one the function returns at once: nothing is
\* written and no cache is cleared
update_transactions_bulk(df_updates) ==
    IF df_updates.isNone \/ frame_empty(df_updates)
    THEN /\ Returned("update_transactions_bulk", FALSE)
         /\ UNCHANGED <<table_vars, savings_vars, cache>>
    ELSE /\ transactions' = {updated_row(r, df_updates.rows) : r \in transactions}
         /\ invalidate_cache
         /\ Returned("update_transactions_bulk", TRUE)
         /\ UNCHANGED <<cashflow_adjustments, debts, seq, savings_vars>>

add_cashflow_adjustment(date_, amount) ==
    /\ seq' = [seq EXCEPT !.cashflow_adjustments = @ + 1]
    /\ cashflow_adjustments' = cashflow_adjustments \cup
          {[id |-> seq.cashflow_adjustments + 1, date |-> date_, amount |-> amount]}
    /\ invalidate_cache
    /\ Returned("add_cashflow_adjustment", TRUE)
    /\ UNCHANGED <<transactions, debts, savings_vars>>

delete_cashflow_adjustment(adj_id) ==
    /\ cashflow_adjustments' = {r \in cashflow_adjustments : r.id # adj_id}
    /\ invalidate_cache
    /\ Returned("delete_cashflow_adjustment", TRUE)
    /\ UNCHANGED <<transactions, debts, seq, savings_vars>>

\* INSERT INTO debts with paid false
add_debt(amount) ==
    /\ seq' = [seq EXCEPT !.debts = @ + 1]
    /\ debts' = debts \cup {[id |-> seq.debts + 1, amount |-> amount, paid |-> paid_to_db(0)]}
    /\ invalidate_cache
    /\ Returned("add_debt", TRUE)
    /\ UNCHANGED <<transactions, cashflow_adjustments, savings_vars>>

\* UPDATE debts SET paid = :paid WHERE id = :id
mark_debt_paid(debt_id, paid) ==
    /\ debts' = {IF r.id = debt_id THEN [r EXCEPT !.paid = paid_to_db(paid)] ELSE r :
                    r \in debts}
    /\ invalidate_cache
    /\ Returned("mark_debt_paid", TRUE)
    /\ UNCHANGED <<transactions, cashflow_adjustments, seq, savings_vars>>

delete_debt(debt_id) ==
    /\ debts' = {r \in debts : r.id # debt_id}
    /\ invalidate_cache
    /\ Returned("delete_debt", TRUE)
    /\ UNCHANGED <<transactions, cashflow_adjustments, seq, savings_vars>>

(* ---------------------------- the cached reads ------------------------- *)
NoneArg == [isNone |-> TRUE, day |-> 0]
DayArg(d) == [isNone |-> FALSE, day |-> d]
Key(p_ds, p_de) == [ds |-> p_ds, de |-> p_de]

\* SELECT ... WHERE date >= :ds AND date <= :de, each bound only when the
\* argument is given; ISO dates compare as their days do. The ORDER BY and
\* the column clean-up give one frame per set of rows, so the set stands for it.
select_by_date(table, k) ==
    {r \in table :
        /\ k.ds.isNone \/ r.date.day >= k.ds.day
        /\ k.de.isNone \/ r.date.day <= k.de.day}

\* the table a cached function reads
table_of(fn) ==
    IF fn = "fetch_transactions" THEN transactions ELSE cashflow_adjustments

\* @st.cache_data: the stored value for these arguments when there is one,
\* else the function body runs and its value is stored
cached_fetch(fn, k) ==
    LET hits == {e \in cache[fn] : e.key = k}
        value == IF hits # {} THEN (CHOOSE e \in hits : TRUE).value
                 ELSE select_by_date(table_of(fn), k)
    IN  /\ cache' = IF hits # {} THEN cache
                    ELSE [cache EXCEPT ![fn] = @ \cup {[key |-> k, value |-> value]}]
        /\ last_op' = [name |-> fn, committed |-> FALSE, key |-> k, value |-> value]
        /\ UNCHANGED <<table_vars, savings_vars>>

fetch_transactions(date_start, date_end) ==
    cached_fetch("fetch_transactions", Key(date_start, date_end))

fetch_cashflow_adjustments(date_start, date_end) ==
    cached_fetch("fetch_cashflow_adjustments", Key(date_start, date_end))

\* ttl=10: an entry older than ten seconds is dropped
expire(fn, e) ==
    /\ e \in cache[fn]
    /\ cache' = [cache EXCEPT ![fn] = @ \ {e}]
    /\ UNCHANGED <<table_vars, savings_vars, last_op>>

(* ---------------------------- the savings challenge -------------------- *)
MaxGoal == 3

\* targets a goal may be set to, in centavos: none, negative, and up to
\* 2 * MaxGoal in steps of 0.50
SavTargets == {50 * k : k \in (-1)..(4 * MaxGoal)}

\* slot numbers a caller may name, some of them not in the table
SlotArgs == 0..(MaxGoal + 1)

\* variant: the old rows are kept and the slots 1..n are added to them
rebuilt_deposits_keep_old(existing_map, n) ==
    [i \in (DOMAIN existing_map) \cup (1..n) |->
        IF i \in DOMAIN existing_map THEN existing_map[i] ELSE 0]

\* DELETE FROM savings_deposits_v2, then one INSERT for each i of
\* range(1, n + 1) with the done flag the slot had before, 0 for a new slot
rebuilt_deposits(existing_map, n) ==
    [i \in 1..n |-> IF i \in DOMAIN existing_map THEN existing_map[i] ELSE 0]

\* savings_tx_link_v2 is left out: no statement of the sources inserts into
\* it, so its DELETEs remove nothing. due_date is stored and not used.
set_savings_goal_v2(target_amount) ==
    LET n == min_n_for_target(target_amount) IN
    /\ savings_goal_v2' =
          [isNull |-> FALSE, target_amount |-> target_amount, n_deposits |-> n]
    /\ savings_deposits_v2' = rebuilt_deposits(savings_deposits_v2, n)
    /\ savings_overrides_v2' =
          [i \in {j \in DOMAIN savings_overrides_v2 : j <= n} |->
              savings_overrides_v2[i]]
    /\ invalidate_cache
    /\ Returned("set_savings_goal_v2", TRUE)
    /\ UNCHANGED table_vars

\* UPDATE savings_deposits_v2 SET done = :done WHERE n = :n
toggle_savings_deposit_v2(n, done) ==
    /\ savings_deposits_v2' =
          [i \in DOMAIN savings_deposits_v2 |->
              IF i = n THEN paid_to_db(done) ELSE savings_deposits_v2[i]]
    /\ invalidate_cache
    /\ Returned("toggle_savings_deposit_v2", TRUE)
    /\ UNCHANGED <<table_vars, savings_goal_v2, savings_overrides_v2>>

\* amount None deletes the override of slot n, any other amount upserts it
set_savings_override_v2(n, amount) ==
    /\ savings_overrides_v2' =
          IF amount.isNone
          THEN [i \in (DOMAIN savings_overrides_v2) \ {n} |-> savings_overrides_v2[i]]
          ELSE [i \in (DOMAIN savings_overrides_v2) \cup {n} |->
                   IF i = n THEN amount.value ELSE savings_overrides_v2[i]]
    /\ invalidate_cache
    /\ Returned("set_savings_override_v2", TRUE)
    /\ UNCHANGED <<table_vars, savings_goal_v2, savings_deposits_v2>>

\* UPDATE savings_deposits_v2 SET done = false
reset_savings_marks_v2 ==
    /\ savings_deposits_v2' = [i \in DOMAIN savings_deposits_v2 |-> paid_to_db(0)]
    /\ invalidate_cache
    /\ Returned("reset_savings_marks_v2", TRUE)
    /\ UNCHANGED <<table_vars, savings_goal_v2, savings_overrides_v2>>

clear_savings_goal_v2 ==
    /\ savings_goal_v2' = NullGoal
    /\ savings_deposits_v2' = <<>>
    /\ savings_overrides_v2' = <<>>
    /\ invalidate_cache
    /\ Returned("clear_savings_goal_v2", TRUE)
    /\ UNCHANGED table_vars

\* slots an override is set for: the first one and one past the largest goal
OverrideSlots == {1, MaxGoal + 1}

OverrideArgs == {[isNone |-> TRUE, value |-> 0], [isNone |-> FALSE, value |-> 5]}

SavingsInit == StoreFresh /\ NotStoreIdle

SetGoal ==
    /\ \E t \in SavTargets : set_savings_goal_v2(t)
    /\ UNCHANGED <<n_writes, not_store_vars>>

ToggleDeposit ==
    /\ \E n \in SlotArgs, done \in {0, 1} : toggle_savings_deposit_v2(n, done)
    /\ UNCHANGED <<n_writes, not_store_vars>>

SetOverride ==
    /\ \E n \in OverrideSlots, a \in OverrideArgs : set_savings_override_v2(n, a)
    /\ UNCHANGED <<n_writes, not_store_vars>>

ResetMarks ==
    /\ reset_savings_marks_v2
    /\ UNCHANGED <<n_writes, not_store_vars>>

ClearGoal ==
    /\ clear_savings_goal_v2
    /\ UNCHANGED <<n_writes, not_store_vars>>

NextSavings ==
    \/ SetGoal
    \/ ToggleDeposit
    \/ SetOverride
    \/ ResetMarks
    \/ ClearGoal

SpecSavings == SavingsInit /\ [][NextSavings]_vars

(* ---------------------------- sequential store operations ------------- *)
MaxWrites == 3

StoreDates == {IsoDate(0), IsoDate(1)}

\* frames handed to update_transactions_bulk: none, an empty one, and one
\* that edits the first transaction
BulkFrames ==
    { NoneFrame, EmptyFrame,
      [isNone |-> FALSE,
       rows |-> <<[id |-> 1, date |-> IsoDate(1), type |-> s_ENTRADA_pad,
                   amount |-> 2, paid |-> 0]>>] }

TxKeys  == {Key(NoneArg, NoneArg), Key(DayArg(1), DayArg(1))}
AdjKeys == {Key(DayArg(0), DayArg(1))}

WriteOps ==
    {"add_transaction", "delete_transaction", "update_transactions_bulk",
     "add_cashflow_adjustment", "delete_cashflow_adjustment",
     "add_debt", "mark_debt_paid", "delete_debt",
     "set_savings_goal_v2", "toggle_savings_deposit_v2", "set_savings_override_v2",
     "reset_savings_marks_v2", "clear_savings_goal_v2"}

ReadOps == {"fetch_transactions", "fetch_cashflow_adjustments"}

StoreInit == StoreFresh /\ NotStoreIdle

\* one more write is issued and runs to its return
Write(op) ==
    /\ n_writes < MaxWrites
    /\ n_writes' = n_writes + 1
    /\ op
    /\ UNCHANGED not_store_vars

Read(op) ==
    /\ op
    /\ UNCHANGED <<n_writes, not_store_vars>>

AddTransaction    == Write(\E d \in StoreDates : add_transaction(d, s_Saida_pad, 1, 1))
DeleteTransaction == Write(\E i \in 1..MaxWrites : delete_transaction(i))
UpdateBulk        == Write(\E f \in BulkFrames : update_transactions_bulk(f))
AddAdjustment     == Write(\E d \in StoreDates : add_cashflow_adjustment(d, 1))
DeleteAdjustment  == Write(delete_cashflow_adjustment(1))
AddDebt           == Write(add_debt(3))
MarkDebtPaid      == Write(mark_debt_paid(1, 1))
DeleteDebt        == Write(delete_debt(1))
StoreSetGoal      == Write(set_savings_goal_v2(100))
StoreToggle       == Write(toggle_savings_deposit_v2(1, 1))
StoreSetOverride  == Write(set_savings_override_v2(1, [isNone |-> FALSE, value |-> 5]))
StoreResetMarks   == Write(reset_savings_marks_v2)
StoreClearGoal    == Write(clear_savings_goal_v2)

FetchTransactions == Read(\E k \in TxKeys : fetch_transactions(k.ds, k.de))
FetchAdjustments  == Read(\E k \in AdjKeys : fetch_cashflow_adjustments(k.ds, k.de))
Expire            == Read(\E fn \in ReadOps : \E e \in cache[fn] : expire(fn, e))

NextStore ==
    \/ AddTransaction
    \/ DeleteTransaction
    \/ UpdateBulk
    \/ AddAdjustment
    \/ DeleteAdjustment
    \/ AddDebt
    \/ MarkDebtPaid
    \/ DeleteDebt
    \/ StoreSetGoal
    \/ StoreToggle
    \/ StoreSetOverride
    \/ StoreResetMarks
    \/ StoreClearGoal
    \/ FetchTransactions
    \/ FetchAdjustments
    \/ Expire

SpecStore == StoreInit /\ [][NextStore]_vars

(* ---------------------------- settling a debt -------------------------- *)
MaxDebts == 2

\* fetch_debts(show_quitadas): the open debts, or all of them, through
\* st.cache_data
fetch_debts(show_quitadas) ==
    LET k == [show |-> show_quitadas]
        hits == {e \in cache["fetch_debts"] : e.key = k}
        value == IF hits # {} THEN (CHOOSE e \in hits : TRUE).value
                 ELSE IF show_quitadas THEN debts
                 ELSE {r \in debts : r.paid = paid_to_db(0)}
    IN  /\ cache' = IF hits # {} THEN cache
                    ELSE [cache EXCEPT !["fetch_debts"] = @ \cup {[key |-> k, value |-> value]}]
        /\ last_op' = [name |-> "fetch_debts", committed |-> FALSE, key |-> k, value |-> value]
        /\ UNCHANGED <<table_vars, savings_vars>>

\* variant: the debt is marked before the expense is recorded
settle_steps_mark_first == <<"mark_debt_paid", "add_transaction">>

\* the two store calls of the handler, in the order it makes them
settle_steps == <<"add_transaction", "mark_debt_paid">>

SettleInit == StoreFresh /\ SettleIdle /\ NotSettleIdle

\* "Cadastrar dívida"
SettleAddDebt ==
    /\ handler.pc \in {"idle", "page"}
    /\ seq.debts < MaxDebts
    /\ \E a \in {3, 5} : add_debt(a)
    /\ handler' = [handler EXCEPT !.pc = "idle"]
    /\ UNCHANGED <<n_writes, not_settle_vars>>

\* the debts page is drawn: df = fetch_debts(...); an empty frame stops the run
RenderDebts ==
    /\ handler.pc \in {"idle", "page"}
    /\ \E show \in BOOLEAN : fetch_debts(show)
    /\ handler' = [IdleHandler EXCEPT !.pc = IF last_op'.value = {} THEN "idle" ELSE "page",
                                      !.df = last_op'.value]
    /\ UNCHANGED <<n_writes, not_settle_vars>>

\* "Quitar agora" with an id typed in: an id that is not positive or not in
\* the frame shows a message; otherwise the row is taken and the two store
\* calls follow
ClickSettle ==
    /\ handler.pc = "page"
    /\ seq.transactions < MaxDebts + 1
    /\ \E id \in 0..MaxDebts, d \in StoreDates :
          LET row == {r \in handler.df : r.id = id} IN
          handler' = IF id <= 0 \/ row = {}
                     THEN [handler EXCEPT !.debt_id = id]
                     ELSE [handler EXCEPT !.pc = "settling", !.debt_id = id,
                                          !.amount = (CHOOSE r \in row : TRUE).amount,
                                          !.dt_fim = d, !.step = 1]
    /\ UNCHANGED <<store_vars, not_settle_vars>>

\* the next store call of the handler commits; after the last one the page
\* reruns
SettleStep ==
    /\ handler.pc = "settling"
    /\ IF settle_steps[handler.step] = "add_transaction"
       THEN add_transaction(handler.dt_fim, s_saida, handler.amount, 1)
       ELSE mark_debt_paid(handler.debt_id, 1)
    /\ handler' = IF handler.step = Len(settle_steps)
                  THEN [handler EXCEPT !.pc = "idle"]
                  ELSE [handler EXCEPT !.step = @ + 1]
    /\ UNCHANGED <<n_writes, not_settle_vars>>

\* the next store call raises: its transaction is rolled back and the
\* exception ends the run of the script
SettleStepRaises ==
    /\ handler.pc = "settling"
    /\ handler' = [handler EXCEPT !.pc = "idle"]
    /\ UNCHANGED <<store_vars, not_settle_vars>>

\* "Excluir dívida"
SettleDeleteDebt ==
    /\ handler.pc = "page"
    /\ \E id \in 1..MaxDebts : delete_debt(id)
    /\ handler' = [handler EXCEPT !.pc = "idle"]
    /\ UNCHANGED <<n_writes, not_settle_vars>>

NextSettle ==
    \/ SettleAddDebt
    \/ RenderDebts
    \/ ClickSettle
    \/ SettleStep
    \/ SettleStepRaises
    \/ SettleDeleteDebt

SpecSettle == SettleInit /\ [][NextSettle]_vars

(* ---------------------------- a fetch overlapping a write -------------- *)
\* sessions run their scripts in threads of one process and share the caches
MaxFetchers == 2
MaxCommits  == 2

\* must holds the rows whose write had committed and cleared the caches when
\* the fetch started, and that the query of the fetch selects
IdleFetcher == [pc |-> "idle", key |-> NoKey, value |-> {}, must |-> {}]

ConcInit ==
    /\ StoreFresh
    /\ fetchers = [f \in 1..MaxFetchers |-> IdleFetcher]
    /\ writer = IdleWriter
    /\ completed = {}
    /\ NotConcIdle

\* fetch_transactions is called: a stored value for the arguments is returned
\* at once, otherwise the body starts
FetchStart ==
    \E f \in 1..MaxFetchers, k \in TxKeys :
        LET hits == {e \in cache["fetch_transactions"] : e.key = k}
            must == select_by_date(completed, k) IN
        /\ fetchers[f].pc \in {"idle", "returned"}
        /\ fetchers' = [fetchers EXCEPT ![f] =
              IF hits # {}
              THEN [pc |-> "returned", key |-> k,
                    value |-> (CHOOSE e \in hits : TRUE).value, must |-> must]
              ELSE [pc |-> "computing", key |-> k, value |-> {}, must |-> must]]
        /\ UNCHANGED <<store_vars, writer, completed, not_conc_vars>>

\* the body runs its SELECT on the table as it is at this moment
FetchRead ==
    \E f \in 1..MaxFetchers :
        /\ fetchers[f].pc = "computing"
        /\ fetchers' = [fetchers EXCEPT ![f].pc = "read",
                            ![f].value = select_by_date(transactions, fetchers[f].key)]
        /\ UNCHANGED <<store_vars, writer, completed, not_conc_vars>>

\* the value the body returned is stored for the arguments and handed back
FetchStore ==
    \E f \in 1..MaxFetchers :
        /\ fetchers[f].pc = "read"
        /\ cache' = [cache EXCEPT !["fetch_transactions"] =
              {e \in @ : e.key # fetchers[f].key}
                 \cup {[key |-> fetchers[f].key, value |-> fetchers[f].value]}]
        /\ last_op' = [name |-> "fetch_transactions", committed |-> FALSE,
                       key |-> fetchers[f].key, value |-> fetchers[f].value]
        /\ fetchers' = [fetchers EXCEPT ![f].pc = "returned"]
        /\ UNCHANGED <<table_vars, savings_vars, n_writes, writer, completed, not_conc_vars>>

\* add_transaction in another session: its transaction block commits
WriterCommit ==
    /\ writer.pc = "idle"
    /\ seq.transactions < MaxCommits
    /\ \E d \in StoreDates : insert_transaction(d, s_saida, 1, 1)
    /\ writer' = [pc |-> "committed", row |-> seq.transactions + 1]
    /\ UNCHANGED <<cashflow_adjustments, debts, savings_vars, cache, last_op, n_writes,
                   fetchers, completed, not_conc_vars>>

\* ... and then its _invalidate_cache() runs and the write returns
WriterInvalidate ==
    /\ writer.pc = "committed"
    /\ invalidate_cache
    /\ Returned("add_transaction", TRUE)
    /\ completed' = completed \cup {r \in transactions : r.id = writer.row}
    /\ writer' = IdleWriter
    /\ UNCHANGED <<table_vars, savings_vars, n_writes, fetchers, not_conc_vars>>

\* ttl=10 drops an entry
ConcExpire ==
    /\ \E e \in cache["fetch_transactions"] : expire("fetch_transactions", e)
    /\ UNCHANGED <<n_writes, conc_vars, not_conc_vars>>

NextConc ==
    \/ FetchStart
    \/ FetchRead
    \/ FetchStore
    \/ WriterCommit
    \/ WriterInvalidate
    \/ ConcExpire

SpecConc == ConcInit /\ [][NextConc]_vars

(* ---------------------------- the page script --------------------------- *)
\* fim_fluxo = dt_fim + timedelta(days=30)
FluxoDays == 30
\* end7 = dt_fim + timedelta(days=7)
Next7Days == 7

Paginas == {"visao_geral", "lancamentos", "fluxo", "dividas", "desafio"}

\* dates the two date inputs may hold: near ones and ones further apart than
\* the horizon of the cash-flow page
AppDays == Days \cup {d + FluxoDays + 1 : d \in Days}

\* what the two fetches of a page may hand to build_cashflow
AppTxFrames ==
    { EmptyFrame,
      [isNone |-> FALSE, rows |-> <<Tx(IsoDate(0), s_entrada, Num(1), 1)>>],
      [isNone |-> FALSE, rows |-> <<Tx(IsoDate(1), s_saida, Num(4), 0)>>] }

AppAdjFrames ==
    { EmptyFrame, [isNone |-> FALSE, rows |-> <<Adj(IsoDate(1), Num(1))>>] }

\* variant: the period is never found invalid
period_invalid_never(p_ini, p_fim) == FALSE

\* if dt_ini > dt_fim
period_invalid(p_ini, p_fim) == p_ini > p_fim

AppInit ==
    /\ dt_ini \in AppDays
    /\ dt_fim \in AppDays
    /\ pagina \in Paginas
    /\ pc_app = "period"
    /\ called = FALSE
    /\ CashflowIdle
    /\ NotAppIdle

\* the sidebar check: an invalid period shows the error and stops the run
CheckPeriod ==
    /\ pc_app = "period"
    /\ pc_app' = IF period_invalid(dt_ini, dt_fim) THEN "stopped" ELSE "page"
    /\ UNCHANGED <<dt_ini, dt_fim, pagina, called>>
    /\ UNCHANGED cf_vars
    /\ UNCHANGED not_app_vars

\* the projector call of a page, on what the page fetched
CallFromPage(p_start, p_end) ==
    \E tx \in AppTxFrames, adj \in AppAdjFrames, op \in BOOLEAN :
        /\ df_tx' = tx
        /\ df_adj' = adj
        /\ start' = p_start
        /\ end' = p_end
        /\ only_paid' = op
        /\ out' = build_cashflow(tx, p_start, p_end, op, adj)
        /\ raised' = "none"
        /\ pc' = "done"
        /\ called' = TRUE
        /\ pc_app' = "done"
        /\ UNCHANGED <<dt_ini, dt_fim, pagina>>
        /\ UNCHANGED not_app_vars

\* "Próximos 7 dias": start7 = dt_fim, end7 = dt_fim + 7 days
RenderVisaoGeral ==
    /\ pc_app = "page"
    /\ pagina = "visao_geral"
    /\ CallFromPage(dt_fim, dt_fim + Next7Days)

\* "Fluxo de Caixa": dt_ini to fim_fluxo
RenderFluxo ==
    /\ pc_app = "page"
    /\ pagina = "fluxo"
    /\ CallFromPage(dt_ini, dt_fim + FluxoDays)

\* the other pages do not call the projector
RenderOther ==
    /\ pc_app = "page"
    /\ pagina \in {"lancamentos", "dividas", "desafio"}
    /\ pc_app' = "done"
    /\ UNCHANGED <<dt_ini, dt_fim, pagina, called>>
    /\ UNCHANGED cf_vars
    /\ UNCHANGED not_app_vars

\* a widget changes and the script runs again from the top
Rerun ==
    /\ pc_app \in {"stopped", "done"}
    /\ dt_ini' \in AppDays
    /\ dt_fim' \in AppDays
    /\ pagina' \in Paginas
    /\ pc_app' = "period"
    /\ called' = FALSE
    /\ df_tx' = NoneFrame /\ df_adj' = NoneFrame
    /\ start' = 0 /\ end' = 0 /\ only_paid' = FALSE
    /\ pc' = "idle" /\ raised' = "none" /\ out' = <<>>
    /\ UNCHANGED not_app_vars

NextApp ==
    \/ CheckPeriod
    \/ RenderVisaoGeral
    \/ RenderFluxo
    \/ RenderOther
    \/ Rerun

SpecApp == AppInit /\ [][NextApp]_vars

(* ---------------------------- C13 -------------------------------------- *)
LedgerRow(d, in, ex, adj, day, run) ==
    [data |-> d, entrada |-> in, saida |-> ex, ajuste |-> adj,
     saldo_dia |-> day, saldo_acumulado |-> run]

\* C13: for 2024-01-01..2024-01-03 with a paid income of 100 on 01-01 and a
\* paid expense of 30 on 01-03 the rows are (100,0,0,100,100), (0,0,0,0,100),
\* (0,30,0,-30,70); with an adjustment of 20 on 01-02 the 01-02 row is
\* (0,0,20,-20,80) and the 01-03 running balance is 50.
C13_Scenario ==
    (/\ pc = "done" /\ start = 0 /\ end = 2
     /\ df_tx.rows = <<ScenarioIncome, ScenarioExpense>>) =>
        /\ df_adj.rows = <<>> =>
              out = << LedgerRow(0, 100, 0, 0, 100, 100),
                       LedgerRow(1, 0, 0, 0, 0, 100),
                       LedgerRow(2, 0, 30, 0, -30, 70) >>
        /\ df_adj.rows = <<ScenarioAdjustment>> =>
              /\ out[1] = LedgerRow(0, 100, 0, 0, 100, 100)
              /\ out[2] = LedgerRow(1, 0, 0, 20, -20, 80)
              /\ out[3].saldo_acumulado = 50

C13_Witness ==
    /\ pc = "done" /\ start = 0 /\ end = 2
    /\ df_tx.rows = <<ScenarioIncome, ScenarioExpense>>
    /\ df_adj.rows = <<ScenarioAdjustment>>
    /\ Len(out) = 3 /\ out[3].saldo_acumulado = 50

(* ---------------------------- C16 -------------------------------------- *)
\* C16: _min_n_for_target(target) returns, for every target > 0, the smallest
\* integer n >= 1 with n(n+1)/2 >= target, and 1 for every target <= 0.
C16_SmallestN ==
    pc_min = "done" =>
        /\ n_result >= 1
        /\ target <= 0 => n_result = 1
        /\ target > 0 =>
              /\ n_result * (n_result + 1) * 50 >= target
              /\ (n_result - 1) * n_result * 50 < target
              /\ \A k \in 1..(n_result - 1) : k * (k + 1) * 50 < target

\* a target strictly between two triangular numbers, where the first guess
\* is one too small
C16_Witness == pc_min = "done" /\ target = 350 /\ n_result = 3

(* ---------------------------- C14 -------------------------------------- *)
\* C14: the application never invokes build_cashflow with start > end: a run
\* whose period has dt_ini > dt_fim stops before any projector call, and both
\* call sites pass a start that is not later than the end.
C14_ValidRangeAtCalls ==
    /\ called => start <= end /\ Len(out) = end - start + 1
    /\ dt_ini > dt_fim => ~called /\ pc_app \in {"period", "stopped"}
    /\ (called /\ pagina = "fluxo") => start = dt_ini /\ end = dt_fim + 30
    /\ (called /\ pagina = "visao_geral") => start = dt_fim /\ end = dt_fim + 7

\* the cash-flow page has called the projector for a period of one day
C14_Witness ==
    /\ called /\ pagina = "fluxo" /\ dt_ini = dt_fim /\ dt_ini = 1
    /\ start = 1 /\ end = 31 /\ Len(out) = 31

(* ---------------------------- C17 -------------------------------------- *)
\* C17: after init_db and any sequence of the five savings writes, the slot
\* numbers stored in savings_deposits_v2 are exactly 1..n_deposits of the
\* savings_goal_v2 row, and there is no slot when n_deposits is unset.
C17_SlotsMatchGoal ==
    IF savings_goal_v2.isNull
    THEN DOMAIN savings_deposits_v2 = {}
    ELSE /\ savings_goal_v2.n_deposits >= 1
         /\ DOMAIN savings_deposits_v2 = 1..savings_goal_v2.n_deposits

\* a goal of two slots set over an earlier one whose first slot was marked
\* and given an override
C17_Witness ==
    /\ last_op.name = "set_savings_goal_v2"
    /\ ~savings_goal_v2.isNull /\ savings_goal_v2.n_deposits = 2
    /\ savings_deposits_v2 = <<1, 0>>
    /\ DOMAIN savings_overrides_v2 = {1}

(* ---------------------------- C15 -------------------------------------- *)
ReadCachesEmpty ==
    cache["fetch_transactions"] = {} /\ cache["fetch_cashflow_adjustments"] = {}

\* a fetch that returned gave the rows the table holds now
FetchFresh ==
    last_op.name \in ReadOps =>
        last_op.value = select_by_date(table_of(last_op.name), last_op.key)

\* every stored entry is what its query gives on the table as it is now
CacheCoherent ==
    \A fn \in ReadOps : \A e \in cache[fn] :
        e.value = select_by_date(table_of(fn), e.key)

\* C15: after any sequence of sequential store operations, every write that
\* returned has cleared the read caches of fetch_transactions and
\* fetch_cashflow_adjustments, so the next fetch returns the rows as
\* persisted after the write, never a result cached before it.
C15_EveryWriteClears ==
    /\ last_op.name \in WriteOps => ReadCachesEmpty
    /\ FetchFresh

\* C15 as the code has it: every write that ran its transaction has cleared
\* the read caches; update_transactions_bulk given no frame or an empty one
\* writes nothing and clears nothing; in both cases whatever the caches hold
\* equals the persisted rows, and so does what the next fetch returns.
C15_CommittedWriteClears ==
    /\ (last_op.name \in WriteOps /\ last_op.committed) => ReadCachesEmpty
    /\ (last_op.name \in WriteOps /\ ~last_op.committed) =>
           last_op.name = "update_transactions_bulk"
    /\ CacheCoherent
    /\ FetchFresh

\* a fetch after two writes returns the edited row
C15_Witness ==
    /\ last_op.name = "fetch_transactions"
    /\ last_op.key = Key(DayArg(1), DayArg(1))
    /\ last_op.value = {[id |-> 1, date |-> IsoDate(1), type |-> s_entrada,
                         amount |-> 2, paid |-> 0]}
    /\ n_writes = 2

(* ---------------------------- C18 -------------------------------------- *)
\* the paid 'saida' transactions of this amount
ExpensesOf(a) ==
    {t \in transactions : t.type = s_saida /\ t.paid = 1 /\ t.amount = a}

\* C18: settling a debt records the expense before marking the debt: the
\* paid flag is set only after add_transaction has committed a paid 'saida'
\* transaction with the debt's amount, so no run of the settle action leaves
\* a debt marked paid without its expense having been recorded.
C18_ExpenseBeforeMark ==
    \A a \in {3, 5} :
        Cardinality({d \in debts : d.paid = 1 /\ d.amount = a})
            <= Cardinality(ExpensesOf(a))

\* the handler has recorded the expense of debt 1 and then marked it
C18_Witness ==
    /\ last_op.name = "mark_debt_paid"
    /\ handler.pc = "idle" /\ handler.debt_id = 1 /\ handler.amount = 5
    /\ \E d \in debts : d.id = 1 /\ d.paid = 1 /\ d.amount = 5
    /\ Cardinality(ExpensesOf(5)) = 1

(* ---------------------------- C19 -------------------------------------- *)
\* C19: when a fetch runs concurrently with a write, then once the write has
\* committed and run _invalidate_cache, every fetch started afterwards
\* returns data that includes the write: a fetch that read the table before
\* the commit cannot store its pre-write result in the cache after the
\* invalidation.
C19_FetchAfterWriteIncludesIt ==
    /\ \A f \in DOMAIN fetchers :
          fetchers[f].pc = "returned" => fetchers[f].must \subseteq fetchers[f].value
    /\ \A e \in cache["fetch_transactions"] :
          select_by_date(completed, e.key) \subseteq e.value

====
